---- MODULE Spec2Model ----
(***************************************************************************)
(* Model of the Notion page client in src/src/main.rs: main calls          *)
(* api_request once, which reads the credential, builds and sends one GET  *)
(* request, classifies the outcome and normalises the body; main renders   *)
(* the result on one of the two output streams and returns.                *)
(***************************************************************************)
EXTENDS Integers, Sequences, FiniteSets, TLC

VARIABLES pc, env, args, page_id, api_key, url, client, request, sends,
          resp, status, text, bodyReads, printed, result, stdout, stderr,
          exitCode

vars == << pc, env, args, page_id, api_key, url, client, request, sends,
           resp, status, text, bodyReads, printed, result, stdout, stderr,
           exitCode >>

(* ------------------------------ bounds --------------------------------- *)

\* longest response body the transport delivers in the model
MaxLen == 3

(* ----------------------------- alphabets ------------------------------- *)

\* characters a body is made of: two digits, JSON whitespace, the array
\* punctuation, and a letter that occurs in no JSON token of the model
Chars == {"0", "1", " ", "[", "]", ",", "x"}

SeqsUpTo(n) == UNION {[1..k -> Chars] : k \in 0..n}

Bodies == SeqsUpTo(MaxLen)

\* status codes the transport can deliver (http::StatusCode is 100..=999):
\* the edges of every class and the codes the classifier names
Statuses == {100, 199, 200, 204, 299, 300, 400, 401, 403, 404, 418, 499,
             500, 503, 599, 600, 999}

ApiError == {"MissingApiKey", "ConnectionFailed", "Unauthorized", "NotFound",
             "ServerError", "InvalidResponse"}

None == << >>

default_id == <<"273a1865-b187-805e-88d3-cabf5f3cdf04">>

NoResult == [tag |-> "none", data |-> None, error |-> "none"]
Ok(d)    == [tag |-> "Ok", data |-> d, error |-> "none"]
Err(e)   == [tag |-> "Err", data |-> None, error |-> e]

NoResp == [delivered |-> FALSE, status |-> 0, body |-> None, readable |-> FALSE]

(* ------------------- serde_json::from_str::<Value> --------------------- *)

Digits == {"0", "1"}
DigitVal(c) == IF c = "1" THEN 1 ELSE 0

NumV(n)  == [kind |-> "num", n |-> n, items |-> << >>]
ArrV(xs) == [kind |-> "arr", n |-> 0, items |-> xs]

POk(v, i) == [ok |-> TRUE, val |-> v, next |-> i]
PFail     == [ok |-> FALSE, val |-> NumV(0), next |-> 0]

\* first position at or after i that holds no whitespace (Len(s)+1 at the end)
RECURSIVE SkipWs(_, _)
SkipWs(s, i) ==
  IF i <= Len(s) /\ s[i] = " " THEN SkipWs(s, i + 1) ELSE i

\* the digits after a leading non-zero digit, accumulated in base ten
RECURSIVE ParseDigits(_, _, _)
ParseDigits(s, i, acc) ==
  IF i <= Len(s) /\ s[i] \in Digits
  THEN ParseDigits(s, i + 1, acc * 10 + DigitVal(s[i]))
  ELSE POk(NumV(acc), i)

\* a leading zero is a whole number; a digit right after it is an error
ParseNumber(s, i) ==
  IF s[i] = "0"
  THEN IF i + 1 <= Len(s) /\ s[i + 1] \in Digits THEN PFail
       ELSE POk(NumV(0), i + 1)
  ELSE ParseDigits(s, i + 1, DigitVal(s[i]))

RECURSIVE ParseValue(_, _)
RECURSIVE ParseElems(_, _, _)

\* one value starting at position i, which holds no whitespace
ParseValue(s, i) ==
  IF i > Len(s) THEN PFail
  ELSE IF s[i] \in Digits THEN ParseNumber(s, i)
  ELSE IF s[i] = "["
       THEN LET j == SkipWs(s, i + 1)
            IN  IF j <= Len(s) /\ s[j] = "]" THEN POk(ArrV(<< >>), j + 1)
                ELSE ParseElems(s, j, << >>)
  ELSE PFail

\* the elements of a non-empty array, up to and including the closing "]"
ParseElems(s, i, acc) ==
  LET v == ParseValue(s, i)
  IN  IF ~v.ok THEN PFail
      ELSE LET j == SkipWs(s, v.next)
           IN  IF j > Len(s) THEN PFail
               ELSE IF s[j] = "," THEN ParseElems(s, SkipWs(s, j + 1), Append(acc, v.val))
               ELSE IF s[j] = "]" THEN POk(ArrV(Append(acc, v.val)), j + 1)
               ELSE PFail

\* the whole text is one value between optional whitespace
from_str(s) ==
  LET v == ParseValue(s, SkipWs(s, 1))
  IN  IF v.ok /\ SkipWs(s, v.next) = Len(s) + 1 THEN v ELSE PFail

(* ------------------- serde_json::to_string_pretty ---------------------- *)

DigitChar(d) == <<"0", "1", "2", "3", "4", "5", "6", "7", "8", "9">>[d + 1]

RECURSIVE DecDigits(_)
DecDigits(n) ==
  IF n < 10 THEN << DigitChar(n) >>
  ELSE Append(DecDigits(n \div 10), DigitChar(n % 10))

RECURSIVE Indent(_)
Indent(level) == IF level = 0 THEN << >> ELSE <<" ", " ">> \o Indent(level - 1)

RECURSIVE PrettyValue(_, _)
RECURSIVE PrettyItems(_, _, _)

PrettyItems(xs, k, level) ==
  IF k > Len(xs) THEN << >>
  ELSE (IF k = 1 THEN <<"\n">> ELSE <<",", "\n">>)
       \o Indent(level + 1) \o PrettyValue(xs[k], level + 1)
       \o PrettyItems(xs, k + 1, level)

PrettyValue(v, level) ==
  IF v.kind = "num" THEN DecDigits(v.n)
  ELSE IF v.items = << >> THEN <<"[", "]">>
  ELSE <<"[">> \o PrettyItems(v.items, 1, level) \o <<"\n">> \o Indent(level) \o <<"]">>

to_string_pretty(v) == PrettyValue(v, 0)

(* ----------------------------- api_request ----------------------------- *)

\* a missing key taken for an empty one (unwrap_or_default)
EnvVar_Default(e) == Ok(e)

\* env::var("NOTION_API_KEY").map_err(|_| MissingApiKey)?
EnvVar(e) == IF e = None THEN Err("MissingApiKey") ELSE Ok(e)

\* a send failure reported under the catch-all variant
SendErr_Invalid == "InvalidResponse"

\* .send().map_err(|_| ConnectionFailed)?
SendErr == "ConnectionFailed"

\* a failed send tried again
AfterSendErr_Retry == "send"

\* where api_request goes after a send that failed: it returns
AfterSendErr == "match"

\* only 200 taken for a success; no upper end on the server errors
is_success_Only200(s)   == s = 200
is_server_error_Open(s) == s >= 500

is_success(s)      == s \in 200..299
is_server_error(s) == s \in 500..599

\* the chain without the 403 arm
ClassifyError_No403(s) ==
  IF s = 401 THEN "Unauthorized"
  ELSE IF s = 404 THEN "NotFound"
  ELSE IF is_server_error(s) THEN "ServerError"
  ELSE "InvalidResponse"

\* the else-if chain on a status that is not a success
ClassifyError(s) ==
  IF s = 401 \/ s = 403 THEN "Unauthorized"
  ELSE IF s = 404 THEN "NotFound"
  ELSE IF is_server_error(s) THEN "ServerError"
  ELSE "InvalidResponse"

\* resp.text().map_err(|_| InvalidResponse)?
TextErr == "InvalidResponse"

\* the chain ending in an empty string (unwrap_or_default) when the parse fails
Pretty_EmptyFallback(t, printErr) ==
  LET parsed == from_str(t)
  IN  IF parsed.ok
      THEN IF printErr THEN t ELSE to_string_pretty(parsed.val)
      ELSE << >>

\* the chain that parses and then returns the text it parsed
Pretty_NoPrint(t, printErr) == t

\* from_str(&text).map(|v| to_string_pretty(&v).unwrap_or(text.clone())).unwrap_or(text)
\* printErr: to_string_pretty returned Err
Pretty(t, printErr) ==
  LET parsed == from_str(t)
  IN  IF parsed.ok
      THEN IF printErr THEN t ELSE to_string_pretty(parsed.val)
      ELSE t

(* -------------------------------- main --------------------------------- *)

\* the data printed without its label
PrintOk_NoLabel(d) == d \o <<"\n">>

\* println!("Data received:\n{}", response.data)
PrintOk(d) == <<"Data received:", "\n">> \o d \o <<"\n">>

\* eprintln!("Error: {:?}", error)
PrintErr(e) == <<"Error: ", e, "\n">>

\* main returns (), whatever api_request returned
ExitStatus(r) == 0

(* ------------------------------- state --------------------------------- *)

\* the environment holds the key or not; the command line holds an id or not
Init ==
  /\ pc = "main"
  /\ env \in {None, <<"secret">>}
  /\ args \in {<< >>, <<"p1">>}
  /\ page_id = None
  /\ api_key = None
  /\ url = None
  /\ client = FALSE
  /\ request = None
  /\ sends = 0
  /\ resp = NoResp
  /\ status = 0
  /\ text = None
  /\ bodyReads = 0
  /\ printed = "none"
  /\ result = NoResult
  /\ stdout = << >>
  /\ stderr = << >>
  /\ exitCode = -1

\* let page_id = env::args().nth(1).unwrap_or(default_id)
Start ==
  /\ pc = "main"
  /\ page_id' = IF args = << >> THEN default_id ELSE args
  /\ pc' = "env_var"
  /\ UNCHANGED << env, args, api_key, url, client, request, sends, resp, status,
                  text, bodyReads, printed, result, stdout, stderr, exitCode >>

\* step 1: read the key, return MissingApiKey without it
ReadApiKey ==
  /\ pc = "env_var"
  /\ LET r == EnvVar(env)
     IN  IF r.tag = "Ok"
         THEN /\ api_key' = r.data
              /\ pc' = "build"
              /\ UNCHANGED result
         ELSE /\ result' = r
              /\ pc' = "match"
              /\ UNCHANGED api_key
  /\ UNCHANGED << env, args, page_id, url, client, request, sends, resp, status,
                  text, bodyReads, printed, stdout, stderr, exitCode >>

\* step 2: the url and the client
BuildRequest ==
  /\ pc = "build"
  /\ url' = <<"https://api.notion.com/v1/pages/">> \o page_id
  /\ client' = TRUE
  /\ pc' = "send"
  /\ UNCHANGED << env, args, page_id, api_key, request, sends, resp, status,
                  text, bodyReads, printed, result, stdout, stderr, exitCode >>

\* client.get(url).header(..).header(..).send(): the transport fails, or it
\* delivers a status and a body whose read will succeed or not
Send ==
  /\ pc = "send"
  /\ client
  /\ request' = [method |-> "GET", url |-> url,
                 Authorization |-> <<"Bearer ">> \o api_key,
                 NotionVersion |-> "2025-09-03"]
  /\ sends' = sends + 1
  /\ \/ /\ resp' = NoResp
        /\ result' = Err(SendErr)
        /\ pc' = AfterSendErr
     \/ /\ \E s \in Statuses, b \in Bodies, r \in BOOLEAN :
             resp' = [delivered |-> TRUE, status |-> s, body |-> b, readable |-> r]
        /\ pc' = "status"
        /\ UNCHANGED result
  /\ UNCHANGED << env, args, page_id, api_key, url, client, status, text,
                  bodyReads, printed, stdout, stderr, exitCode >>

\* step 3: let status = resp.status() and the branch on it
Classify ==
  /\ pc = "status"
  /\ status' = resp.status
  /\ IF is_success(resp.status)
     THEN /\ pc' = "text"
          /\ UNCHANGED result
     ELSE /\ result' = Err(ClassifyError(resp.status))
          /\ pc' = "match"
  /\ UNCHANGED << env, args, page_id, api_key, url, client, request, sends, resp,
                  text, bodyReads, printed, stdout, stderr, exitCode >>

\* let text = resp.text().map_err(|_| InvalidResponse)?
ReadText ==
  /\ pc = "text"
  /\ bodyReads' = bodyReads + 1
  /\ IF resp.readable
     THEN /\ text' = resp.body
          /\ pc' = "pretty"
          /\ UNCHANGED result
     ELSE /\ result' = Err(TextErr)
          /\ pc' = "match"
          /\ UNCHANGED text
  /\ UNCHANGED << env, args, page_id, api_key, url, client, request, sends, resp,
                  status, printed, stdout, stderr, exitCode >>

\* the pretty-printing chain and Ok(ApiResponse { data: pretty });
\* to_string_pretty runs only on a parsed value, and returns Ok or Err
Normalize ==
  /\ pc = "pretty"
  /\ \E printErr \in BOOLEAN :
       /\ from_str(text).ok \/ ~printErr
       /\ printed' = IF ~from_str(text).ok THEN "none"
                     ELSE IF printErr THEN "err" ELSE "ok"
       /\ result' = Ok(Pretty(text, printErr))
  /\ pc' = "match"
  /\ UNCHANGED << env, args, page_id, api_key, url, client, request, sends, resp,
                  status, text, bodyReads, stdout, stderr, exitCode >>

\* match api_result { Ok(response) => println!, Err(error) => eprintln! }
Render ==
  /\ pc = "match"
  /\ IF result.tag = "Ok"
     THEN /\ stdout' = stdout \o PrintOk(result.data)
          /\ UNCHANGED stderr
     ELSE /\ stderr' = stderr \o PrintErr(result.error)
          /\ UNCHANGED stdout
  /\ pc' = "exit"
  /\ UNCHANGED << env, args, page_id, api_key, url, client, request, sends, resp,
                  status, text, bodyReads, printed, result, exitCode >>

\* main falls off its end
Exit ==
  /\ pc = "exit"
  /\ exitCode' = ExitStatus(result)
  /\ pc' = "done"
  /\ UNCHANGED << env, args, page_id, api_key, url, client, request, sends, resp,
                  status, text, bodyReads, printed, result, stdout, stderr >>

Next ==
  \/ Start
  \/ ReadApiKey
  \/ BuildRequest
  \/ Send
  \/ Classify
  \/ ReadText
  \/ Normalize
  \/ Render
  \/ Exit

Spec == Init /\ [][Next]_vars

TypeOK ==
  /\ pc \in {"main", "env_var", "build", "send", "status", "text", "pretty",
             "match", "exit", "done"}
  /\ sends \in Nat
  /\ bodyReads \in Nat
  /\ result.tag \in {"none", "Ok", "Err"}
  /\ result.tag = "Err" => result.error \in ApiError

(* ------------------------ the JSON text grammar ------------------------ *)
(* RFC 8259 restricted to Chars, stated on substrings and not by scanning: *)
(* text = ws value ws, value = number / array, number = "0" / "1" *DIGIT,  *)
(* array = "[" ws "]" / "[" element *("," element) "]", element = text.    *)

Sub(s, i, j) == [k \in 1..(j - i + 1) |-> s[i + k - 1]]

IsWs(s) == \A k \in 1..Len(s) : s[k] = " "

IsNumber(s) ==
  /\ Len(s) >= 1
  /\ \A k \in 1..Len(s) : s[k] \in Digits
  /\ s[1] = "0" => Len(s) = 1

RECURSIVE IsValue(_)
RECURSIVE IsElement(_)
RECURSIVE IsElements(_)

IsElement(s) ==
  \E i \in 1..Len(s) : \E j \in i..Len(s) :
    /\ IsWs(Sub(s, 1, i - 1))
    /\ IsValue(Sub(s, i, j))
    /\ IsWs(Sub(s, j + 1, Len(s)))

IsElements(s) ==
  \/ IsElement(s)
  \/ \E k \in 1..Len(s) :
       /\ s[k] = ","
       /\ IsElement(Sub(s, 1, k - 1))
       /\ IsElements(Sub(s, k + 1, Len(s)))

IsValue(s) ==
  \/ IsNumber(s)
  \/ /\ Len(s) >= 2
     /\ s[1] = "["
     /\ s[Len(s)] = "]"
     /\ LET inner == Sub(s, 2, Len(s) - 1)
        IN  IsWs(inner) \/ IsElements(inner)

IsJsonText(s) == IsElement(s)

\* a text without its insignificant whitespace
RECURSIVE Strip(_)
Strip(s) ==
  IF s = << >> THEN << >>
  ELSE IF s[1] \in {" ", "\n"} THEN Strip(Tail(s))
  ELSE << s[1] >> \o Strip(Tail(s))

\* api_request has returned: main holds api_result
Returned == pc \in {"match", "exit", "done"}

(* ------------------------------ properties ----------------------------- *)

\* C1: when the process has ended, its exit status is zero exactly when
\* api_request returned Ok, and non-zero on every ApiError.
C1_ExitStatusTellsFailure ==
  pc = "done" => (exitCode = 0 <=> result.tag = "Ok")

\* C2: without the credential api_request returns MissingApiKey, and at no
\* point of the run is a client created, a request built or a send made.
C2_MissingKeyNoTransport ==
  (env = None /\ pc \notin {"main", "env_var"}) =>
    /\ result = Err("MissingApiKey")
    /\ ~client
    /\ request = None
    /\ sends = 0
    /\ resp = NoResp

C2_Witness ==
  /\ pc = "done"
  /\ env = None
  /\ result = Err("MissingApiKey")
  /\ sends = 0

\* C3: a delivered status in 200..299 with a readable body always ends in
\* Ok, whether the body is JSON or not and whether printing it fails or not.
C3_SuccessNeverErr ==
  (Returned /\ resp.delivered /\ resp.status \in 200..299 /\ resp.readable) =>
    /\ result.tag = "Ok"
    /\ result.error \notin ApiError

C3_Witness ==
  /\ pc = "done"
  /\ resp.delivered
  /\ resp.status = 204
  /\ resp.readable
  /\ resp.body = << >>
  /\ ~IsJsonText(resp.body)
  /\ result.tag = "Ok"

\* C4: 401 and 403 give Unauthorized, 404 gives NotFound, 500..599 give
\* ServerError, for every body, and the body is not read on these statuses.
C4_NamedStatuses ==
  (Returned /\ resp.delivered) =>
    /\ resp.status \in {401, 403} => result = Err("Unauthorized")
    /\ resp.status = 404 => result = Err("NotFound")
    /\ resp.status \in 500..599 => result = Err("ServerError")
    /\ resp.status \in {401, 403, 404} \cup (500..599) =>
         bodyReads = 0 /\ text = None

C4_Witness ==
  /\ pc = "done"
  /\ resp.delivered
  /\ resp.status = 403
  /\ resp.readable
  /\ IsJsonText(resp.body)
  /\ result = Err("Unauthorized")
  /\ bodyReads = 0

\* C5: every other status that is not a success gives InvalidResponse, and
\* so does a success status whose body cannot be read as text.
C5_FallbackInvalidResponse ==
  (Returned /\ resp.delivered) =>
    /\ ( /\ resp.status \notin 200..299
         /\ resp.status \notin {401, 403, 404}
         /\ resp.status \notin 500..599 ) => result = Err("InvalidResponse")
    /\ (resp.status \in 200..299 /\ ~resp.readable) =>
         result = Err("InvalidResponse")

C5_Witness ==
  /\ pc = "done"
  /\ resp.delivered
  /\ resp.status = 600
  /\ result = Err("InvalidResponse")

\* C6: with the credential present, a send that delivers no response gives
\* ConnectionFailed, and neither the status nor the body is ever looked at.
C6_TransportFailure ==
  (env # None /\ sends >= 1 /\ ~resp.delivered) =>
    /\ result = Err("ConnectionFailed")
    /\ status = 0
    /\ bodyReads = 0
    /\ text = None
    /\ pc \notin {"status", "text", "pretty"}

C6_Witness ==
  /\ pc = "done"
  /\ env # None
  /\ sends = 1
  /\ ~resp.delivered
  /\ result = Err("ConnectionFailed")

\* C7: fallback law: when the body of a success is not a JSON text, the
\* data returned is the body, character for character.
C7_FallbackLaw ==
  (Returned /\ result.tag = "Ok" /\ ~IsJsonText(resp.body)) =>
    result.data = resp.body

C7_Witness ==
  /\ pc = "done"
  /\ result.tag = "Ok"
  /\ ~IsJsonText(resp.body)
  /\ Len(resp.body) = MaxLen
  /\ resp.body[1] = "["
  /\ result.data = resp.body

\* C8: when the body of a success parses, the data returned is the pretty
\* print of the parsed value (the same document but for whitespace), and
\* the raw body when the print fails.
C8_ParsePrintRaw ==
  (Returned /\ result.tag = "Ok" /\ from_str(text).ok) =>
    /\ printed \in {"ok", "err"}
    /\ printed = "ok" =>
         /\ result.data = to_string_pretty(from_str(text).val)
         /\ Strip(result.data) = Strip(resp.body)
    /\ printed = "err" => result.data = resp.body

C8_Witness ==
  /\ pc = "done"
  /\ result.tag = "Ok"
  /\ IsJsonText(resp.body)
  /\ printed = "ok"
  /\ result.data = <<"[", "\n", " ", " ", "1", "\n", "]">>
  /\ result.data # resp.body

\* C9: main writes one stream only: the label and the data on standard
\* output after Ok, the error variant on standard error after Err, and
\* nothing on the other stream; nothing at all is written before that.
C9_OneStream ==
  /\ pc \notin {"exit", "done"} => stdout = << >> /\ stderr = << >>
  /\ pc \in {"exit", "done"} =>
       IF result.tag = "Ok"
       THEN /\ stdout = <<"Data received:", "\n">> \o result.data \o <<"\n">>
            /\ stderr = << >>
       ELSE /\ stderr = <<"Error: ", result.error, "\n">>
            /\ result.error \in ApiError
            /\ stdout = << >>

C9_Witness ==
  /\ pc = "done"
  /\ result = Err("NotFound")
  /\ stderr = <<"Error: ", "NotFound", "\n">>
  /\ stdout = << >>

\* C10 as stated: every run that ends has executed the send exactly once.
C10_ExactlyOneSend ==
  pc = "done" => sends = 1

\* the positions of the run in program order
Order == <<"main", "env_var", "build", "send", "status", "text", "pretty",
           "match", "exit", "done">>
Pos(p) == CHOOSE i \in 1..Len(Order) : Order[i] = p

\* C10 amended: the send is executed at most once, exactly once when the
\* credential was obtained and never when it was not; no outcome leads back
\* to a second send, and the run ends: every position before the end has a
\* next step and every step moves forward in program order.
C10_AtMostOneSendAndEnds ==
  /\ [](/\ sends <= 1
        /\ pc \in {"status", "text", "pretty"} => sends = 1
        /\ Returned => sends = (IF env = None THEN 0 ELSE 1)
        /\ pc # "done" => ENABLED Next)
  /\ [][Pos(pc') > Pos(pc) /\ sends' \in {sends, sends + 1}]_vars

C10_Witness ==
  /\ pc = "done"
  /\ env # None
  /\ sends = 1
  /\ ~resp.delivered
  /\ result.tag = "Err"
  /\ exitCode = 0
====
